---- MODULE Spec2Model ----
(***************************************************************************)
(* Model of the WoundWise prototype screens:                               *)
(*   - the "Find care near you" session of app/(tabs)/index.tsx            *)
(*     (requestAndUseLocation, runCareSearchFromCoords, the typed-query    *)
(*     onPress handler, Clear results) with its three network helpers      *)
(*     geocodeOSM, reverseGeocodeOSM and searchNearbyCareOSM;              *)
(*   - the ranking pipeline of searchNearbyCareOSM as a pure function.     *)
(*                                                                         *)
(* Coordinates live on a small integer grid whose step is one mile, so     *)
(* haversineMeters is the grid separation times the metres in a mile and   *)
(* toMiles divides it back.  A JavaScript value that is not a number       *)
(* (undefined) is written NoNum.                                           *)
(***************************************************************************)
EXTENDS Integers, Sequences, FiniteSets, Bags, TLC

\* ------------------------------------------------------------------ bounds
\* longest raw element list the point-of-interest service answers with
MaxRaw == 9
\* longest raw element list built from every element kind
MaxShort == 3
\* number of search flows that can be awaiting an external call at once
MaxFlows == 2

\* how many stage selections a behaviour makes
MaxPicks == 3

\* ------------------------------------------------------- program constants
\* results.slice(0, 8)
MaxResults == 8
\* (a.distanceMiles ?? 999)
UnknownDistance == 999
\* meters / 1609.344
MetersPerMile == 1609

NoNum == -1

\* ------------------------------------------------------------ user strings
MsgValidation == "Type a ZIP code or address first (or tap Use my location)."
MsgNotFound == "Couldn't find that location. Try a full address or ZIP + city."
MsgNoResults == "No nearby hospitals/clinics found within ~10km."
MsgSearchFailed == "Search failed. Try again."
MsgCareSearchFailed == "Care search failed. Try again."
MsgPermissionDenied == "Location permission denied. You can still enter a ZIP code/address below."
MsgNoLocation == "Could not access location."
FallbackLabel == "Current location"

\* ------------------------------------------------------------ thrown values
\* what a rejected promise carries: an Error with a message, or a value
\* without one (e?.message is undefined)
NetworkError == [hasMessage |-> TRUE, message |-> "Network request failed"]
ParseError == [hasMessage |-> TRUE, message |-> "JSON Parse error"]
BareRejection == [hasMessage |-> FALSE, message |-> ""]
Rejections == {NetworkError, BareRejection}

Ok(v) == [ok |-> TRUE, val |-> v, err |-> BareRejection]
Throw(e) == [ok |-> FALSE, val |-> <<>>, err |-> e]

\* e.message read with no fallback
MessageOnly(e, fallback) == e.message

\* e?.message ?? fallback
MessageOr(e, fallback) == IF e.hasMessage THEN e.message ELSE fallback

\* ------------------------------------------------------------------ geodesy
Abs(x) == IF x < 0 THEN -x ELSE x

toMiles(meters) == meters \div MetersPerMile

haversineMeters(lat1, lon1, lat2, lon2) ==
    MetersPerMile * (Abs(lat2 - lat1) + Abs(lon2 - lon1))

\* --------------------------------------------------- raw elements (Overpass)
\* an element carries its own point (lat, lon), a centre (clat, clon), both
\* or neither
Element(lat, lon, clat, clon) == [lat |-> lat, lon |-> lon, clat |-> clat, clon |-> clon]

NodeFar == Element(2, 0, NoNum, NoNum)
WayNear == Element(NoNum, NoNum, 1, 0)
NoCoordinate == Element(NoNum, NoNum, NoNum, NoNum)
NodeWithCentre == Element(1, 1, 3, 0)
HalfPoint == Element(0, NoNum, NoNum, NoNum)

CoreKinds == {NodeFar, WayNear, NoCoordinate}
ElemKinds == CoreKinds \cup {NodeWithCentre, HalfPoint}

SeqsUpTo(S, n) == UNION {[1..k -> S] : k \in 0..n}

RawLists == SeqsUpTo(CoreKinds, MaxRaw) \cup SeqsUpTo(ElemKinds, MaxShort)

\* the centre taken before the element's own point
CoalesceCentreFirst(x, y) == IF y # NoNum THEN y ELSE x

\* x ?? y on numbers
Coalesce(x, y) == IF x # NoNum THEN x ELSE y

\* the body of elements.map(...): a CareResult, or null for an element
\* without a representative coordinate
IsNull(r) == r.lat = NoNum

NullResult == [lat |-> NoNum, lon |-> NoNum, distanceMiles |-> NoNum]

NormalizeElement(el, lat, lon) ==
    LET centerLat == Coalesce(el.lat, el.clat)
        centerLon == Coalesce(el.lon, el.clon)
    IN  IF centerLat = NoNum \/ centerLon = NoNum
        THEN NullResult
        ELSE [lat |-> centerLat, lon |-> centerLon,
              distanceMiles |-> toMiles(haversineMeters(lat, lon, centerLat, centerLon))]

\* .filter(Boolean)
RECURSIVE FilterNonNull(_)
FilterNonNull(s) ==
    IF s = <<>> THEN <<>>
    ELSE IF IsNull(Head(s)) THEN FilterNonNull(Tail(s))
         ELSE <<Head(s)>> \o FilterNonNull(Tail(s))

MapWithoutFilter(elements, lat, lon) ==
    [i \in 1..Len(elements) |-> NormalizeElement(elements[i], lat, lon)]

MapElements(elements, lat, lon) ==
    FilterNonNull([i \in 1..Len(elements) |-> NormalizeElement(elements[i], lat, lon)])

\* (a, b) => (a.distanceMiles ?? 999) - (b.distanceMiles ?? 999)
SortKey(r) == IF r.distanceMiles = NoNum THEN UnknownDistance ELSE r.distanceMiles

CompareBackwards(a, b) == SortKey(b) - SortKey(a)

CompareByDistance(a, b) == SortKey(a) - SortKey(b)

\* Array.prototype.sort is stable: x goes behind every entry it does not
\* precede
RECURSIVE InsertSorted(_, _)
InsertSorted(x, s) ==
    IF s = <<>> THEN <<x>>
    ELSE IF CompareByDistance(x, Head(s)) < 0 THEN <<x>> \o s
         ELSE <<Head(s)>> \o InsertSorted(x, Tail(s))

RECURSIVE SortByDistance(_)
SortByDistance(s) ==
    IF s = <<>> THEN <<>>
    ELSE InsertSorted(s[Len(s)], SortByDistance(SubSeq(s, 1, Len(s) - 1)))

SliceOneMore(s) == SubSeq(s, 1, IF Len(s) < MaxResults + 1 THEN Len(s) ELSE MaxResults + 1)

\* results.slice(0, 8)
Slice(s) == SubSeq(s, 1, IF Len(s) < MaxResults THEN Len(s) ELSE MaxResults)

RankElements(elements, lat, lon) == Slice(SortByDistance(MapElements(elements, lat, lon)))

\* --------------------------------------------------------- service answers
\* fetch rejects (reject), the body is not JSON (badbody), or the body parses

\* Overpass: a JSON body with or without an element list
PoiJson(hasElements, elements) ==
    [kind |-> "json", err |-> BareRejection, hasElements |-> hasElements, elements |-> elements]

PoiFailure(e) ==
    [kind |-> "reject", err |-> e, hasElements |-> FALSE, elements |-> <<>>]

PoiBadBody ==
    [kind |-> "badbody", err |-> ParseError, hasElements |-> FALSE, elements |-> <<>>]

PoiNoElementList == PoiJson(FALSE, <<>>)

searchNearbyCareOSM(resp, lat, lon) ==
    IF resp.kind = "reject" THEN Throw(resp.err)
    ELSE IF resp.kind = "badbody" THEN Throw(ParseError)
    ELSE LET elements == IF resp.hasElements THEN resp.elements ELSE <<>>
         IN  Ok(RankElements(elements, lat, lon))

\* Nominatim /search: a JSON array of matches, or a JSON body that is no array
GeoMatch(lat, lon, name) == [lat |-> lat, lon |-> lon, display_name |-> name]

GeoJson(isArray, data) ==
    [kind |-> "json", err |-> BareRejection, isArray |-> isArray, data |-> data]

GeoFailure(e) == [kind |-> "reject", err |-> e, isArray |-> FALSE, data |-> <<>>]

GeoBadBody == [kind |-> "badbody", err |-> ParseError, isArray |-> FALSE, data |-> <<>>]

\* parseFloat on the coordinate strings the geocoder sends
parseFloat(s) == CASE s = "0" -> 0 [] s = "1" -> 1 [] OTHER -> NoNum

NoGeo == [found |-> FALSE, lat |-> NoNum, lon |-> NoNum, displayName |-> ""]

\* data[0] read without the emptiness check
geocodeUnchecked(resp) ==
    IF resp.kind = "reject" THEN Throw(resp.err)
    ELSE IF resp.kind = "badbody" THEN Throw(ParseError)
    ELSE IF ~resp.isArray \/ Len(resp.data) = 0
         THEN Throw([hasMessage |-> TRUE, message |-> "undefined is not an object"])
    ELSE Ok([found |-> TRUE,
             lat |-> parseFloat(resp.data[1].lat),
             lon |-> parseFloat(resp.data[1].lon),
             displayName |-> resp.data[1].display_name])

\* data[0].lat and data[0].lon read into each other's place
geocodeSwapped(resp) ==
    IF resp.kind = "reject" THEN Throw(resp.err)
    ELSE IF resp.kind = "badbody" THEN Throw(ParseError)
    ELSE IF ~resp.isArray \/ Len(resp.data) = 0 THEN Ok(NoGeo)
    ELSE Ok([found |-> TRUE,
             lat |-> parseFloat(resp.data[1].lon),
             lon |-> parseFloat(resp.data[1].lat),
             displayName |-> resp.data[1].display_name])

geocodeOSM(resp) ==
    IF resp.kind = "reject" THEN Throw(resp.err)
    ELSE IF resp.kind = "badbody" THEN Throw(ParseError)
    ELSE IF ~resp.isArray \/ Len(resp.data) = 0 THEN Ok(NoGeo)
    ELSE Ok([found |-> TRUE,
             lat |-> parseFloat(resp.data[1].lat),
             lon |-> parseFloat(resp.data[1].lon),
             displayName |-> resp.data[1].display_name])

\* Nominatim /reverse: a JSON body with or without display_name
RevJson(hasName, name) ==
    [kind |-> "json", err |-> BareRejection, hasName |-> hasName, display_name |-> name]

RevFailure(e) == [kind |-> "reject", err |-> e, hasName |-> FALSE, display_name |-> ""]

RevBadBody == [kind |-> "badbody", err |-> ParseError, hasName |-> FALSE, display_name |-> ""]

reverseGeocodeRethrows(resp) ==
    IF resp.kind = "reject" THEN Throw(resp.err)
    ELSE IF resp.kind = "badbody" THEN Throw(ParseError)
    ELSE Ok(IF resp.hasName /\ resp.display_name # "" THEN resp.display_name ELSE FallbackLabel)

reverseGeocodeOSM(resp) ==
    IF resp.kind \in {"reject", "badbody"} THEN Ok(FallbackLabel)
    ELSE Ok(IF resp.hasName /\ resp.display_name # "" THEN resp.display_name ELSE FallbackLabel)

\* ----------------------------------------------------------- the world
Coord(lat, lon) == [lat |-> lat, lon |-> lon]
NoOrigin == Coord(NoNum, NoNum)
Origins == {Coord(0, 0), Coord(1, 0)}

\* the label both geocoders know a coordinate by
NameAt(c) == IF c.lat = 0 THEN "Main St" ELSE "Oak Ave"
CoordText(n) == IF n = 0 THEN "0" ELSE "1"

\* a list longer than the service ever gets to show
Overfull == [i \in 1..MaxRaw |-> IF i % 2 = 1 THEN NodeFar ELSE WayNear]

SessionElementLists == {<<>>, <<NoCoordinate>>, Overfull}

PoiResponses ==
    {PoiFailure(e) : e \in Rejections} \cup {PoiBadBody, PoiNoElementList}
        \cup {PoiJson(TRUE, l) : l \in SessionElementLists}

GeoResponses ==
    {GeoFailure(e) : e \in Rejections} \cup {GeoBadBody, GeoJson(FALSE, <<>>), GeoJson(TRUE, <<>>)}
        \cup {GeoJson(TRUE, <<GeoMatch(CoordText(c.lat), CoordText(c.lon), NameAt(c))>>) : c \in Origins}

RevResponses(c) ==
    {RevFailure(e) : e \in Rejections}
        \cup {RevBadBody, RevJson(FALSE, ""), RevJson(TRUE, ""), RevJson(TRUE, NameAt(c))}

PermStatus(s) == [kind |-> "status", err |-> BareRejection, status |-> s]
PermFailure(e) == [kind |-> "reject", err |-> e, status |-> ""]
PermResponses ==
    {PermStatus(s) : s \in {"granted", "denied", "undetermined"}}
        \cup {PermFailure(e) : e \in Rejections}

Position(c) == [kind |-> "position", err |-> BareRejection, coords |-> c]
PosFailure(e) == [kind |-> "reject", err |-> e, coords |-> NoOrigin]
PosResponses == {Position(c) : c \in Origins} \cup {PosFailure(e) : e \in Rejections}

\* what the user can have typed; a string is its sequence of characters
Queries == {<<>>, <<" ">>, <<" ", "a">>}

\* String.prototype.trim
RECURSIVE TrimStart(_)
TrimStart(s) == IF s # <<>> /\ Head(s) = " " THEN TrimStart(Tail(s)) ELSE s

RECURSIVE TrimEnd(_)
TrimEnd(s) ==
    IF s # <<>> /\ s[Len(s)] = " " THEN TrimEnd(SubSeq(s, 1, Len(s) - 1)) ELSE s

NoTrim(s) == s

Trim(s) == TrimEnd(TrimStart(s))

\* ------------------------------------------------------- stage assessment
\* (texts are written with ASCII dashes and comparison signs)
STAGES == <<"Stage I", "Stage II", "Stage III", "Stage IV", "Unstageable", "DTPI">>
StageLabels == {STAGES[i] : i \in DOMAIN STAGES}

PROTO_PRED_STAGE == "Stage IV"

\* the fixed probabilities, in thousandths
PROTO_PROBS ==
    [s \in StageLabels |->
        CASE s = "Stage I" -> 10
          [] s = "Stage II" -> 60
          [] s = "Stage III" -> 180
          [] s = "Stage IV" -> 730
          [] s = "Unstageable" -> 0
          [] s = "DTPI" -> 20]

\* Math.round(p * 100)
pct(p) == (p + 5) \div 10

confidenceTierFromTop(topP) ==
    IF topP >= 950 THEN [label |-> "Almost certain", hint |-> ">=95%"]
    ELSE IF topP >= 850 THEN [label |-> "Very likely", hint |-> "85-94%"]
    ELSE IF topP >= 700 THEN [label |-> "Most likely", hint |-> "70-84%"]
    ELSE IF topP >= 500 THEN [label |-> "Possible", hint |-> "50-69%"]
    ELSE [label |-> "Uncertain", hint |-> "<50%"]

likelihoodLabel(p) ==
    IF p >= 850 THEN "Most likely"
    ELSE IF p >= 700 THEN "Likely"
    ELSE IF p >= 400 THEN "Possible"
    ELSE IF p >= 200 THEN "Unlikely"
    ELSE "Highly unlikely"

getGuidance(stage) ==
    CASE stage = "Stage I" ->
             [title |-> "Early pressure injury (mild)", urgency |-> "Low-Moderate"]
      [] stage = "Stage II" ->
             [title |-> "Partial-thickness skin loss", urgency |-> "Moderate"]
      [] stage = "Stage III" ->
             [title |-> "Full-thickness skin loss", urgency |-> "High"]
      [] stage = "Stage IV" ->
             [title |-> "Severe deep wound", urgency |-> "Very High"]
      [] stage = "Unstageable" ->
             [title |-> "Depth cannot be determined", urgency |-> "High"]
      [] stage = "DTPI" ->
             [title |-> "Deep tissue pressure injury", urgency |-> "High"]

getStageAccent(stage) ==
    CASE stage = "Stage I" -> "#4ADE80"
      [] stage = "Stage II" -> "#60A5FA"
      [] stage = "Stage III" -> "#FBBF24"
      [] stage = "Stage IV" -> "#FB7185"
      [] stage = "Unstageable" -> "#A78BFA"
      [] stage = "DTPI" -> "#22D3EE"

\* [...STAGES].sort((a, b) => stageProbs[b] - stageProbs[a]): a stable sort,
\* most probable first
InsertStage(s, sorted, probs) ==
    LET before == {i \in DOMAIN sorted : probs[sorted[i]] >= probs[s]}
        k == Cardinality(before)
    IN  SubSeq(sorted, 1, k) \o <<s>> \o SubSeq(sorted, k + 1, Len(sorted))

RECURSIVE RankStages(_, _)
RankStages(stages, probs) ==
    IF stages = <<>> THEN <<>>
    ELSE InsertStage(stages[Len(stages)],
                     RankStages(SubSeq(stages, 1, Len(stages) - 1), probs), probs)

\* what the stage card and the guidance card show, with the guidance taken
\* from the stage the user is viewing
RenderViewedGuidance(selected) ==
    LET stageProbs == PROTO_PROBS
        ranked == RankStages(STAGES, stageProbs)
        topStage == ranked[1]
        topP == stageProbs[topStage]
    IN  [table |-> [s \in StageLabels |->
                       [pct |-> pct(stageProbs[s]), label |-> likelihoodLabel(stageProbs[s])]],
         topStage |-> topStage,
         topPct |-> pct(topP),
         tier |-> confidenceTierFromTop(topP),
         viewing |-> selected,
         viewingPct |-> pct(stageProbs[selected]),
         accent |-> getStageAccent(selected),
         guidance |-> getGuidance(selected)]

\* what the stage card and the guidance card show for a selected stage
Render(selected) ==
    LET stageProbs == PROTO_PROBS
        ranked == RankStages(STAGES, stageProbs)
        topStage == ranked[1]
        topP == stageProbs[topStage]
    IN  [table |-> [s \in StageLabels |->
                       [pct |-> pct(stageProbs[s]), label |-> likelihoodLabel(stageProbs[s])]],
         topStage |-> topStage,
         topPct |-> pct(topP),
         tier |-> confidenceTierFromTop(topP),
         viewing |-> selected,
         viewingPct |-> pct(stageProbs[selected]),
         accent |-> getStageAccent(selected),
         guidance |-> getGuidance(topStage)]

\* ------------------------------------------------------ photo-capture page
NoPhoto == ""
CameraUri == "camera.jpg"
GalleryUri == "gallery.jpg"

MsgCameraAccess == "Please allow camera access."
MsgGalleryAccess == "Please allow gallery access."
MsgNoPhoto == "Please take a photo first."
MsgSubmitted == "Photo submitted successfully!"
NoAlert == ""

\* what the image picker's promises settle with
PhotoAnswer(kind, granted, canceled, uri) ==
    [kind |-> kind, granted |-> granted, canceled |-> canceled, uri |-> uri]

NoAnswer == PhotoAnswer("none", FALSE, FALSE, NoPhoto)
PickerRejects == PhotoAnswer("reject", FALSE, FALSE, NoPhoto)
PhotoPermission(granted) == PhotoAnswer("permission", granted, FALSE, NoPhoto)
Picked(uri) == PhotoAnswer("result", FALSE, FALSE, uri)
Cancelled == PhotoAnswer("result", FALSE, TRUE, NoPhoto)

PhotoPermAnswers == {PhotoPermission(TRUE), PhotoPermission(FALSE), PickerRejects}
PickerAnswers(kind) ==
    {Picked(IF kind = "camera" THEN CameraUri ELSE GalleryUri), Cancelled, PickerRejects}

\* the result stored without looking at result.canceled
storeUnchecked(photo, result) == result.uri

\* if (!result.canceled) setPhotoUri(result.assets[0].uri)
storeResult(photo, result) == IF ~result.canceled THEN result.uri ELSE photo

\* ------------------------------------------------------------------- state
VARIABLES
    mounted,          \* the mount effect has run
    locationStatus, originLabel, careResults, careLoading, careError,
    locationQuery,
    flows,            \* the bag of flows suspended at an await
    ev,               \* the last event of the search session, with its answer
    epoch,            \* what has happened since the session was last quiet: one
                      \* flow ("solo"), one flow and a press of Search with no
                      \* query or of Clear ("touched"), two flows ("pair"), more
    rawIn, rankOrigin, rankOut, rankDone,
    selectedStage, showAllStages,
    picks,            \* the stages selected so far, in order
    photoUri,
    photoFlows,       \* the bag of takePhoto / pickFromGallery calls at an await
    alert,            \* the text of the last Alert.alert
    photoEv           \* the last event of the photo page, with its answer

sessionVars ==
    <<mounted, locationStatus, originLabel, careResults, careLoading, careError,
      locationQuery, flows, ev, epoch>>
rankVars == <<rawIn, rankOrigin, rankOut, rankDone>>
stageVars == <<selectedStage, showAllStages, picks>>
photoVars == <<photoUri, photoFlows, alert, photoEv>>
pageVars == <<stageVars, photoVars>>
vars == <<sessionVars, rankVars, pageVars>>

\* a suspended flow: the await it is at (pc), the lat/lon it searches from,
\* the external calls it has issued in order, the origin label it has set
Flow(pc, origin, calls, label) ==
    [pc |-> pc, origin |-> origin, calls |-> calls, label |-> label]

NoFlow == Flow("none", NoOrigin, <<>>, "")
NoResp == [kind |-> "none", err |-> BareRejection]
NoOutcome == [results |-> <<>>, error |-> "", label |-> ""]
Outcome(results, error, label) == [results |-> results, error |-> error, label |-> label]

\* op: the handler or continuation that ran; flow: the flow it ran in, as it
\* was left; resp: the answer it received; ended: the flow has returned;
\* out: what the flow has displayed by its end
Event(op, flow, resp, ended, out) ==
    [op |-> op, flow |-> flow, resp |-> resp, ended |-> ended, out |-> out]

InFlight == BagToSet(flows)
Quiet == flows = EmptyBag
CanStart == BagCardinality(flows) < MaxFlows

Started(fl) == flows (+) SetToBag({fl})
Resumed(fl, next) == (flows (-) SetToBag({fl})) (+) SetToBag({next})
Returned(fl) == flows (-) SetToBag({fl})

FlowKind(fl) == IF fl.calls # <<>> /\ fl.calls[1] = "geo" THEN "typed" ELSE "device"

StartEpoch == IF Quiet THEN "solo" ELSE IF epoch = "solo" THEN "pair" ELSE "spoiled"
SpoilEpoch ==
    IF epoch = "quiet" THEN "quiet"
    ELSE IF epoch \in {"solo", "touched"} THEN "touched" ELSE "spoiled"

SessionInit ==
    /\ mounted = FALSE
    /\ locationStatus = "unknown"
    /\ originLabel = ""
    /\ careResults = <<>>
    /\ careLoading = FALSE
    /\ careError = ""
    /\ locationQuery = <<>>
    /\ flows = EmptyBag
    /\ ev = Event("init", NoFlow, NoResp, FALSE, NoOutcome)
    /\ epoch = "quiet"

RankIdle ==
    /\ rawIn = <<>>
    /\ rankOrigin = Coord(0, 0)
    /\ rankOut = <<>>
    /\ rankDone = FALSE

StageIdle ==
    /\ selectedStage = PROTO_PRED_STAGE
    /\ showAllStages = FALSE
    /\ picks = <<>>

PhotoFlow(kind, pc) == [kind |-> kind, pc |-> pc]
NoPhotoFlow == PhotoFlow("none", "none")
PhotoEvent(op, flow, resp) == [op |-> op, flow |-> flow, resp |-> resp]

PhotoIdle ==
    /\ photoUri = NoPhoto
    /\ photoFlows = EmptyBag
    /\ alert = NoAlert
    /\ photoEv = PhotoEvent("init", NoPhotoFlow, NoAnswer)

Init == SessionInit /\ RankIdle /\ StageIdle /\ PhotoIdle

\* ------------------------------------------------------ device-location flow
\* requestAndUseLocation up to its first await
requestAndUseLocation(op) ==
    LET fl == Flow("awaitPerm", NoOrigin, <<"perm">>, "")
    IN  /\ careError' = ""
        /\ originLabel' = ""
        /\ careResults' = <<>>
        /\ flows' = Started(fl)
        /\ epoch' = StartEpoch
        /\ ev' = Event(op, fl, NoResp, FALSE, NoOutcome)
        /\ UNCHANGED <<locationStatus, careLoading, locationQuery>>

\* useEffect(() => { requestAndUseLocation(); }, [])
Mount ==
    /\ ~mounted
    /\ mounted' = TRUE
    /\ requestAndUseLocation("mount")
    /\ UNCHANGED <<rankVars, pageVars>>

PressUseMyLocation ==
    /\ mounted
    /\ CanStart
    /\ requestAndUseLocation("useMyLocation")
    /\ UNCHANGED <<mounted, rankVars, pageVars>>

\* the catch block of requestAndUseLocation
LocationCatch(fl, op, resp) ==
    LET msg == MessageOr(resp.err, MsgNoLocation)
    IN  /\ locationStatus' = "error"
        /\ careError' = msg
        /\ flows' = Returned(fl)
        /\ ev' = Event(op, fl, resp, TRUE, Outcome(<<>>, msg, fl.label))
        /\ UNCHANGED <<originLabel, careResults, careLoading>>

\* a permission test that lets an undetermined permission through
GrantedUnlessDenied(status) == status # "denied"

\* the test of `status !== "granted"`
Granted(status) == status = "granted"

\* Location.requestForegroundPermissionsAsync() settles
PermReturn(fl, resp) ==
    /\ fl.pc = "awaitPerm"
    /\ IF resp.kind = "reject"
       THEN LocationCatch(fl, "permReturn", resp)
       ELSE IF ~Granted(resp.status)
       THEN /\ locationStatus' = "denied"
            /\ careError' = MsgPermissionDenied
            /\ flows' = Returned(fl)
            /\ ev' = Event("permReturn", fl, resp, TRUE, Outcome(<<>>, MsgPermissionDenied, ""))
            /\ UNCHANGED <<originLabel, careResults, careLoading>>
       ELSE LET next == [fl EXCEPT !.pc = "awaitPos", !.calls = Append(@, "pos")]
            IN  /\ locationStatus' = "granted"
                /\ flows' = Resumed(fl, next)
                /\ ev' = Event("permReturn", next, resp, FALSE, NoOutcome)
                /\ UNCHANGED <<originLabel, careResults, careLoading, careError>>
    /\ UNCHANGED <<mounted, locationQuery, epoch, rankVars, pageVars>>

\* Location.getCurrentPositionAsync() settles; on a position,
\* runCareSearchFromCoords runs up to its first await
PosReturn(fl, resp) ==
    /\ fl.pc = "awaitPos"
    /\ IF resp.kind = "reject"
       THEN LocationCatch(fl, "posReturn", resp)
       ELSE LET next == [fl EXCEPT !.pc = "awaitRev", !.calls = Append(@, "rev"),
                                   !.origin = resp.coords]
            IN  /\ careLoading' = TRUE
                /\ careError' = ""
                /\ careResults' = <<>>
                /\ flows' = Resumed(fl, next)
                /\ ev' = Event("posReturn", next, resp, FALSE, NoOutcome)
                /\ UNCHANGED <<locationStatus, originLabel>>
    /\ UNCHANGED <<mounted, locationQuery, epoch, rankVars, pageVars>>

\* the catch block with no finally after it
SearchCatchNoFinally(fl, op, resp, e) ==
    LET msg == MessageOr(e, IF FlowKind(fl) = "typed" THEN MsgSearchFailed
                                                       ELSE MsgCareSearchFailed)
    IN  /\ careError' = msg
        /\ flows' = Returned(fl)
        /\ ev' = Event(op, fl, resp, TRUE, Outcome(<<>>, msg, fl.label))
        /\ UNCHANGED <<locationStatus, originLabel, careResults, careLoading>>

\* a catch block that issues the failed request once more
SearchCatchRetries(fl, op, resp, e) ==
    LET next == [fl EXCEPT !.calls = Append(fl.calls, fl.calls[Len(fl.calls)])]
    IN  /\ flows' = Resumed(fl, next)
        /\ ev' = Event(op, next, resp, FALSE, NoOutcome)
        /\ UNCHANGED <<locationStatus, originLabel, careResults, careLoading, careError>>

\* catch and finally of runCareSearchFromCoords and of the typed-query
\* handler: only the fallback text differs
SearchCatch(fl, op, resp, e) ==
    LET msg == MessageOr(e, IF FlowKind(fl) = "typed" THEN MsgSearchFailed
                                                       ELSE MsgCareSearchFailed)
    IN  /\ careError' = msg
        /\ careLoading' = FALSE
        /\ flows' = Returned(fl)
        /\ ev' = Event(op, fl, resp, TRUE, Outcome(<<>>, msg, fl.label))
        /\ UNCHANGED <<locationStatus, originLabel, careResults>>

\* reverseGeocodeOSM settles: setOriginLabel(label), then the facility search
\* is issued
RevReturn(fl, resp) ==
    /\ fl.pc = "awaitRev"
    /\ LET r == reverseGeocodeOSM(resp)
           next == [fl EXCEPT !.pc = "awaitPoi", !.calls = Append(@, "poi"), !.label = r.val]
       IN  IF ~r.ok
           THEN SearchCatch(fl, "revReturn", resp, r.err)
           ELSE /\ originLabel' = r.val
                /\ flows' = Resumed(fl, next)
                /\ ev' = Event("revReturn", next, resp, FALSE, NoOutcome)
                /\ UNCHANGED <<locationStatus, careResults, careLoading, careError>>
    /\ UNCHANGED <<mounted, locationQuery, epoch, rankVars, pageVars>>

\* searchNearbyCareOSM settles, in either flow
PoiReturn(fl, resp) ==
    /\ fl.pc = "awaitPoi"
    /\ LET r == searchNearbyCareOSM(resp, fl.origin.lat, fl.origin.lon)
       IN  IF ~r.ok
           THEN SearchCatch(fl, "poiReturn", resp, r.err)
           ELSE /\ IF Len(r.val) = 0
                   THEN /\ careError' = MsgNoResults
                        /\ UNCHANGED careResults
                        /\ ev' = Event("poiReturn", fl, resp, TRUE,
                                       Outcome(<<>>, MsgNoResults, fl.label))
                   ELSE /\ careResults' = r.val
                        /\ UNCHANGED careError
                        /\ ev' = Event("poiReturn", fl, resp, TRUE,
                                       Outcome(r.val, "", fl.label))
                /\ careLoading' = FALSE
                /\ flows' = Returned(fl)
                /\ UNCHANGED <<locationStatus, originLabel>>
    /\ UNCHANGED <<mounted, locationQuery, epoch, rankVars, pageVars>>

\* ---------------------------------------------------------- typed-query flow
\* onPress of "Search this ZIP/address", up to its first await
PressSearch ==
    /\ mounted
    /\ LET q == Trim(locationQuery)
           fl == Flow("awaitGeo", NoOrigin, <<"geo">>, "")
       IN  IF q = <<>>
           THEN /\ careError' = MsgValidation
                /\ ev' = Event("search", NoFlow, NoResp, TRUE, Outcome(<<>>, MsgValidation, ""))
                /\ epoch' = SpoilEpoch
                /\ UNCHANGED <<originLabel, careResults, careLoading, flows>>
           ELSE /\ CanStart
                /\ careLoading' = TRUE
                /\ careError' = ""
                /\ careResults' = <<>>
                /\ originLabel' = ""
                /\ flows' = Started(fl)
                /\ epoch' = StartEpoch
                /\ ev' = Event("search", fl, NoResp, FALSE, NoOutcome)
    /\ UNCHANGED <<mounted, locationStatus, locationQuery, rankVars, pageVars>>

\* geocodeOSM settles
GeoReturn(fl, resp) ==
    /\ fl.pc = "awaitGeo"
    /\ LET geo == geocodeOSM(resp)
       IN  IF ~geo.ok
           THEN SearchCatch(fl, "geoReturn", resp, geo.err)
           ELSE IF ~geo.val.found
           THEN /\ careError' = MsgNotFound
                /\ careLoading' = FALSE
                /\ flows' = Returned(fl)
                /\ ev' = Event("geoReturn", fl, resp, TRUE, Outcome(<<>>, MsgNotFound, ""))
                /\ UNCHANGED <<locationStatus, originLabel, careResults>>
           ELSE LET next == [fl EXCEPT !.pc = "awaitPoi", !.calls = Append(@, "poi"),
                                       !.origin = Coord(geo.val.lat, geo.val.lon),
                                       !.label = geo.val.displayName]
                IN  /\ originLabel' = geo.val.displayName
                    /\ flows' = Resumed(fl, next)
                    /\ ev' = Event("geoReturn", next, resp, FALSE, NoOutcome)
                    /\ UNCHANGED <<locationStatus, careResults, careLoading, careError>>
    /\ UNCHANGED <<mounted, locationQuery, epoch, rankVars, pageVars>>

\* ------------------------------------------------------------ other handlers
\* onPress of "Clear results"
PressClear ==
    /\ mounted
    /\ careResults' = <<>>
    /\ careError' = ""
    /\ originLabel' = ""
    /\ locationQuery' = <<>>
    /\ ev' = Event("clear", NoFlow, NoResp, FALSE, NoOutcome)
    /\ epoch' = SpoilEpoch
    /\ UNCHANGED <<mounted, locationStatus, careLoading, flows, rankVars, pageVars>>

\* onChangeText={setLocationQuery}
ChangeText(q) ==
    /\ mounted
    /\ q # locationQuery
    /\ locationQuery' = q
    /\ UNCHANGED <<mounted, locationStatus, originLabel, careResults, careLoading, careError,
                   flows, ev, epoch, rankVars, pageVars>>

PermSettles == \E fl \in InFlight : \E resp \in PermResponses : PermReturn(fl, resp)
PosSettles == \E fl \in InFlight : \E resp \in PosResponses : PosReturn(fl, resp)
RevSettles == \E fl \in InFlight : \E resp \in RevResponses(fl.origin) : RevReturn(fl, resp)
PoiSettles == \E fl \in InFlight : \E resp \in PoiResponses : PoiReturn(fl, resp)
GeoSettles == \E fl \in InFlight : \E resp \in GeoResponses : GeoReturn(fl, resp)
Typing == \E q \in Queries : ChangeText(q)

Next ==
    \/ Mount
    \/ PressUseMyLocation
    \/ PermSettles
    \/ PosSettles
    \/ RevSettles
    \/ PoiSettles
    \/ PressSearch
    \/ GeoSettles
    \/ PressClear
    \/ Typing

Spec == Init /\ [][Next]_vars

\* every external call settles in the end, except that the reverse-geocode
\* request may stay unanswered for ever (no timeout is configured)
LiveSpec ==
    /\ Spec
    /\ WF_vars(PermSettles)
    /\ WF_vars(PosSettles)
    /\ WF_vars(GeoSettles)
    /\ WF_vars(PoiSettles)

\* ---------------------------------------------- the ranking pipeline alone
RankInit ==
    /\ SessionInit
    /\ StageIdle
    /\ PhotoIdle
    /\ rawIn \in RawLists
    /\ rankOrigin \in Origins
    /\ rankOut = <<>>
    /\ rankDone = FALSE

RankSearch ==
    /\ ~rankDone
    /\ rankOut' = searchNearbyCareOSM(PoiJson(TRUE, rawIn), rankOrigin.lat, rankOrigin.lon).val
    /\ rankDone' = TRUE
    /\ UNCHANGED <<rawIn, rankOrigin, sessionVars, pageVars>>

RankNext == RankSearch

RankSpec == RankInit /\ [][RankNext]_vars

\* ------------------------------------------------- the stage tabs alone
\* onPress of the Show / Hide button
ToggleStages ==
    /\ showAllStages' = ~showAllStages
    /\ UNCHANGED <<selectedStage, picks, sessionVars, rankVars, photoVars>>

\* onPress={() => setSelectedStage(s)} of a stage tab; the tabs are rendered
\* only while showAllStages
SelectStage(s) ==
    /\ showAllStages
    /\ Len(picks) < MaxPicks
    /\ selectedStage' = s
    /\ picks' = Append(picks, s)
    /\ UNCHANGED <<showAllStages, sessionVars, rankVars, photoVars>>

Selecting == \E s \in StageLabels : SelectStage(s)

StageNext ==
    \/ ToggleStages
    \/ Selecting

StageSpec == Init /\ [][StageNext]_vars

\* ------------------------------------------------ the photo page alone
PhotoStarted(fl) == photoFlows (+) SetToBag({fl})
PhotoResumed(fl, next) == (photoFlows (-) SetToBag({fl})) (+) SetToBag({next})
PhotoReturned(fl) == photoFlows (-) SetToBag({fl})
CanStartPhoto == BagCardinality(photoFlows) < MaxFlows

\* takePhoto or pickFromGallery up to its first await
StartPhoto(kind, op) ==
    LET fl == PhotoFlow(kind, "awaitPerm")
    IN  /\ CanStartPhoto
        /\ photoFlows' = PhotoStarted(fl)
        /\ photoEv' = PhotoEvent(op, fl, NoAnswer)
        /\ UNCHANGED <<photoUri, alert, stageVars, sessionVars, rankVars>>

PressTakePhoto == StartPhoto("camera", "takePhoto")
PressPickFromGallery == StartPhoto("gallery", "pickFromGallery")

\* requestCameraPermissionsAsync / requestMediaLibraryPermissionsAsync
\* settles; a rejection leaves the handler with nothing set
PhotoPermReturn(fl, resp) ==
    /\ fl.pc = "awaitPerm"
    /\ IF resp.kind = "reject"
       THEN /\ photoFlows' = PhotoReturned(fl)
            /\ photoEv' = PhotoEvent("permReturn", fl, resp)
            /\ UNCHANGED <<photoUri, alert>>
       ELSE IF ~resp.granted
       THEN /\ alert' = (IF fl.kind = "camera" THEN MsgCameraAccess ELSE MsgGalleryAccess)
            /\ photoFlows' = PhotoReturned(fl)
            /\ photoEv' = PhotoEvent("permReturn", fl, resp)
            /\ UNCHANGED photoUri
       ELSE LET next == [fl EXCEPT !.pc = "awaitPicker"]
            IN  /\ photoFlows' = PhotoResumed(fl, next)
                /\ photoEv' = PhotoEvent("permReturn", next, resp)
                /\ UNCHANGED <<photoUri, alert>>
    /\ UNCHANGED <<stageVars, sessionVars, rankVars>>

\* launchCameraAsync / launchImageLibraryAsync settles
PickerReturn(fl, resp) ==
    /\ fl.pc = "awaitPicker"
    /\ photoUri' = (IF resp.kind = "reject" THEN photoUri ELSE storeResult(photoUri, resp))
    /\ photoFlows' = PhotoReturned(fl)
    /\ photoEv' = PhotoEvent("pickerReturn", fl, resp)
    /\ UNCHANGED <<alert, stageVars, sessionVars, rankVars>>

\* onPress of Submit, which is disabled while no photo is stored
PressSubmit ==
    /\ photoUri # NoPhoto
    /\ alert' = (IF photoUri = NoPhoto THEN MsgNoPhoto ELSE MsgSubmitted)
    /\ photoEv' = PhotoEvent("submit", NoPhotoFlow, NoAnswer)
    /\ UNCHANGED <<photoUri, photoFlows, stageVars, sessionVars, rankVars>>

PhotoPermSettles ==
    \E fl \in BagToSet(photoFlows) : \E resp \in PhotoPermAnswers : PhotoPermReturn(fl, resp)
PickerSettles ==
    \E fl \in BagToSet(photoFlows) : \E resp \in PickerAnswers(fl.kind) : PickerReturn(fl, resp)

PhotoNext ==
    \/ PressTakePhoto
    \/ PressPickFromGallery
    \/ PhotoPermSettles
    \/ PickerSettles
    \/ PressSubmit

PhotoSpec == Init /\ [][PhotoNext]_vars

\* ------------------------------------------------------------------ claims
Displayed == Outcome(careResults, careError, originLabel)

\* C1: in every reachable state of the care-search session a non-empty
\* result list and a non-empty error/no-results message are never shown
\* together.
C1_OneOutcomeShown == ~(careResults # <<>> /\ careError # "")

\* C2: when a second flow was started before the first had resolved and both
\* have completed (nothing else having touched the session), the result list,
\* the message and the origin label shown are those of the flow that
\* completed last.
C2_LastResponseWins ==
    (Quiet /\ epoch = "pair" /\ ev.ended) => Displayed = ev.out

\* C3: the result list never holds more than 8 entries: neither the list
\* a facility search has just returned nor careResults, whatever number of
\* raw elements the service answered with.
C3_AtMostEightResults ==
    /\ Len(careResults) <= MaxResults
    /\ Len(ev.out.results) <= MaxResults

\* the service answered with more than 8 elements that have a coordinate
C3_Witness ==
    /\ ev.op = "poiReturn"
    /\ ev.resp.kind = "json"
    /\ Len(ev.resp.elements) > MaxResults
    /\ Len(careResults) = MaxResults

\* C4: in every list a facility search produces, distances never decrease
\* from one entry to the next, and an entry of unknown distance comes after
\* every entry of known distance.
C4_SortedByDistance ==
    rankDone =>
        /\ \A i \in 1..Len(rankOut) : \A j \in 1..Len(rankOut) :
              (i < j /\ rankOut[i].distanceMiles # NoNum /\ rankOut[j].distanceMiles # NoNum)
                  => rankOut[i].distanceMiles <= rankOut[j].distanceMiles
        /\ \A i \in 1..Len(rankOut) : \A j \in 1..Len(rankOut) :
              (rankOut[i].distanceMiles = NoNum /\ rankOut[j].distanceMiles # NoNum) => j < i

\* a farther element was sent before a nearer one and both are in the list
C4_Witness ==
    /\ rankDone
    /\ Len(rawIn) >= 2
    /\ rawIn[1] = NodeFar
    /\ rawIn[2] = WayNear
    /\ rankOrigin = Coord(0, 0)
    /\ Len(rankOut) >= 2
    /\ rankOut[1].distanceMiles < rankOut[Len(rankOut)].distanceMiles

\* a query of nothing but blanks
IsBlank(q) == \A i \in 1..Len(q) : q[i] = " "

\* C5: pressing Search with a query that is empty after trimming issues no
\* external call, starts no flow, sets the validation message in that very
\* step and leaves the searching indicator as it was.
C5_EmptyQueryIsLocal ==
    [][(PressSearch /\ IsBlank(locationQuery)) =>
          /\ flows' = flows
          /\ careLoading' = careLoading
          /\ careError' = MsgValidation
          /\ ev'.flow = NoFlow]_vars

\* Search was pressed on a query of one blank
C5_Witness ==
    /\ ev.op = "search"
    /\ ev.flow = NoFlow
    /\ locationQuery = <<" ">>
    /\ careError = MsgValidation

ServiceFailed(resp) == resp.kind \in {"reject", "badbody"}

\* C6: in the typed-query flow, when the geocoder answers with zero matches
\* the flow ends there with the location-not-found message, never having
\* called the facility search; a flow that ends on a service error never
\* shows that message.
C6_NotFoundEndsFlow ==
    /\ (ev.op = "geoReturn" /\ ev.resp.kind = "json" /\ ev.resp.isArray /\ ev.resp.data = <<>>)
          => /\ ev.ended
             /\ ev.flow.calls = <<"geo">>
             /\ ev.out = Outcome(<<>>, MsgNotFound, "")
             /\ careError = MsgNotFound
             /\ ~careLoading
    /\ (ev.ended /\ ServiceFailed(ev.resp)) => ev.out.error # MsgNotFound

\* the geocoder answered with an empty array
C6_Witness ==
    /\ ev.op = "geoReturn"
    /\ ev.resp.kind = "json"
    /\ ev.resp.isArray
    /\ ev.resp.data = <<>>
    /\ careError = MsgNotFound

\* el has a representative coordinate: its own point, else its centre
HasCoordinate(el) ==
    /\ el.lat # NoNum \/ el.clat # NoNum
    /\ el.lon # NoNum \/ el.clon # NoNum

\* C7: in both flows a facility search that completes with an element list of
\* which no element normalizes ends the flow with the no-results message and
\* an empty list of its own; a flow that ends on a service error never
\* shows that message.
C7_ZeroMatchesIsNoResults ==
    /\ (/\ ev.op = "poiReturn"
        /\ ev.resp.kind = "json"
        /\ ev.resp.hasElements
        /\ \A i \in 1..Len(ev.resp.elements) : ~HasCoordinate(ev.resp.elements[i]))
          => /\ ev.ended
             /\ ev.out = Outcome(<<>>, MsgNoResults, ev.flow.label)
             /\ careError = MsgNoResults
             /\ ~careLoading
    /\ (ev.ended /\ ServiceFailed(ev.resp)) => ev.out.error # MsgNoResults

\* the service answered with one element that has no coordinate, in a flow
\* of each kind
C7_WitnessDevice ==
    /\ ev.op = "poiReturn"
    /\ ev.resp.kind = "json"
    /\ ev.resp.elements = <<NoCoordinate>>
    /\ FlowKind(ev.flow) = "device"
    /\ careError = MsgNoResults

C7_Witness ==
    /\ ev.op = "poiReturn"
    /\ ev.resp.kind = "json"
    /\ ev.resp.elements = <<NoCoordinate>>
    /\ FlowKind(ev.flow) = "typed"
    /\ careError = MsgNoResults

\* C8: a flow ends with the no-results message only when the service was
\* queried successfully and answered with an element list; a failed call or
\* an answer without an element list never ends in no-results.
C8_NoResultsOnlyAfterSuccess ==
    (ev.op = "poiReturn" /\ ev.out.error = MsgNoResults)
        => (ev.resp.kind = "json" /\ ev.resp.hasElements)

\* C9: in the device-location flow a failed reverse-geocode call (network
\* error or unreadable body) changes no error message, makes the origin
\* label "Current location" and lets the flow go on to the facility search
\* from the same coordinate; the flow then ends as that search alone decides.
C9_ReverseFailureStep ==
    (ev'.op = "revReturn" /\ ServiceFailed(ev'.resp)) =>
        /\ careError' = careError
        /\ originLabel' = FallbackLabel
        /\ ~ev'.ended
        /\ ev'.flow.pc = "awaitPoi"
        /\ ev'.flow.label = FallbackLabel
        /\ ev'.flow.calls = <<"perm", "pos", "rev", "poi">>
        /\ ev'.flow.origin \in Origins
        /\ ev'.flow \in BagToSet(flows')

C9_SearchAloneDecides ==
    (ev.op = "poiReturn" /\ FlowKind(ev.flow) = "device") =>
        /\ ev.ended
        /\ ev.resp.kind = "json" => ev.out.error \in {"", MsgNoResults}
        /\ ServiceFailed(ev.resp) => ev.out.error = MessageOr(ev.resp.err, MsgCareSearchFailed)
        /\ (ev.out.error = "") = (ev.out.results # <<>>)

\* C9 (both parts): the step of a failed reverse geocode sets no error and
\* degrades the label, and the flow's end depends on the facility search only
C9_ReverseFailureDegrades ==
    /\ [][C9_ReverseFailureStep]_vars
    /\ []C9_SearchAloneDecides

\* the reverse-geocode request failed on the network and the flow that
\* made it is now awaiting the facility search
C9_Witness ==
    /\ ev.op = "revReturn"
    /\ ev.resp.kind = "reject"
    /\ originLabel = FallbackLabel
    /\ ev.flow \in InFlight

AwaitingReverse == \E fl \in InFlight : fl.pc = "awaitRev"
SearchIssued == \E fl \in InFlight : fl.pc = "awaitPoi" /\ FlowKind(fl) = "device"

\* C10: a device-location flow that has asked for the reverse geocode
\* eventually issues the facility search, even if the reverse-geocode call
\* never returns.
C10_ReverseNeverBlocks == AwaitingReverse ~> SearchIssued

\* C11: when the permission request answers with anything other than
\* "granted", the device-location flow ends there: the permission-denied
\* message is shown, which is none of the failure messages, the location
\* status is "denied", and the flow has called neither the position service,
\* the reverse geocoder nor the facility search.
FailureMessages ==
    {MsgSearchFailed, MsgCareSearchFailed, MsgNoLocation,
     NetworkError.message, ParseError.message}

PermissionRefused ==
    ev.op = "permReturn" /\ ev.resp.kind = "status" /\ ev.resp.status # "granted"

C11_DeniedEndsFlow ==
    PermissionRefused =>
        /\ ev.ended
        /\ ev.flow.calls = <<"perm">>
        /\ ev.out = Outcome(<<>>, MsgPermissionDenied, "")
        /\ careError = MsgPermissionDenied
        /\ careError \notin FailureMessages
        /\ locationStatus = "denied"

C11_Witness == PermissionRefused /\ ev.resp.status = "undetermined" /\ Quiet

\* C12: a flow that ran without overlapping another flow has, when it ends,
\* left the session in exactly one of results, no-results or error, with the
\* searching indicator off.
ShowsResults == careResults # <<>>
ShowsNoResults == careError = MsgNoResults
ShowsError == careError \notin {"", MsgNoResults}

OneTerminalState ==
    \/ ShowsResults /\ ~ShowsNoResults /\ ~ShowsError
    \/ ~ShowsResults /\ ShowsNoResults
    \/ ~ShowsResults /\ ShowsError

RanAlone == epoch \in {"solo", "touched"}

C12_FlowEndsInOneState ==
    (ev.ended /\ ev.flow # NoFlow /\ RanAlone) => (OneTerminalState /\ ~careLoading)

\* C13: at most one search flow is in flight at any time.
C13_OneFlowInFlight == BagCardinality(flows) <= 1

\* C14: every failed external call (a rejected request or an unreadable
\* body, of the permission request, the position request, the geocoder, the
\* reverse geocoder or the facility search) is turned into session state by
\* the flow that made it: a reverse-geocode failure becomes the fallback
\* label and the flow goes on, any other failure ends the flow with a
\* non-empty message shown and the indicator it had set turned off; after
\* that both flows can be started again.
CallFailed ==
    /\ ev.op \in {"permReturn", "posReturn", "geoReturn", "revReturn", "poiReturn"}
    /\ ServiceFailed(ev.resp)

C14_FailuresBecomeState ==
    CallFailed =>
        IF ev.op = "revReturn"
        THEN ~ev.ended /\ ev.flow.label = FallbackLabel /\ ev.flow.pc = "awaitPoi"
        ELSE /\ ev.ended
             /\ careError # ""
             /\ careError = ev.out.error
             /\ ev.op \in {"permReturn", "posReturn"} => locationStatus = "error"
             /\ ev.op \in {"geoReturn", "poiReturn"} => ~careLoading
             /\ ENABLED PressUseMyLocation
             /\ ENABLED PressSearch

C14_Witness ==
    /\ CallFailed
    /\ ev.op = "poiReturn"
    /\ ev.resp = PoiFailure(BareRejection)
    /\ FlowKind(ev.flow) = "typed"

\* C15: no flow calls an external service twice, and a geocoder or
\* facility-search call that fails ends its flow in the error outcome with
\* that call as the flow's last one.
CalledOnce(calls) == \A i, j \in DOMAIN calls : i # j => calls[i] # calls[j]

SearchCallFailed == ev.op \in {"geoReturn", "poiReturn"} /\ ServiceFailed(ev.resp)

C15_NoRetry ==
    /\ \A fl \in InFlight \cup {ev.flow} : CalledOnce(fl.calls)
    /\ SearchCallFailed =>
           /\ ev.ended
           /\ ev.out.results = <<>>
           /\ ev.out.error \notin {"", MsgNoResults, MsgNotFound, MsgValidation}
           /\ careError = ev.out.error
           /\ ev.flow.calls[Len(ev.flow.calls)] = (IF ev.op = "geoReturn" THEN "geo" ELSE "poi")

C15_Witness ==
    /\ SearchCallFailed
    /\ ev.op = "geoReturn"
    /\ ev.resp = GeoFailure(NetworkError)
    /\ ev.flow.calls = <<"geo">>

\* C16: in the typed-query flow the facility search is issued only once the
\* geocoder has answered with a match, from the coordinate of that match,
\* with the origin label set to the match's display name; the flow never
\* calls the reverse geocoder.
GeocoderMatched ==
    ev.op = "geoReturn" /\ ev.resp.kind = "json" /\ ev.resp.isArray /\ ev.resp.data # <<>>

Calls(fl) == {fl.calls[i] : i \in DOMAIN fl.calls}

C16_TypedFlowOrder ==
    /\ GeocoderMatched =>
           \E c \in Origins :
               /\ ev.resp.data[1] = GeoMatch(CoordText(c.lat), CoordText(c.lon), NameAt(c))
               /\ ~ev.ended
               /\ ev.flow.pc = "awaitPoi"
               /\ ev.flow.calls = <<"geo", "poi">>
               /\ ev.flow.origin = c
               /\ ev.flow.label = NameAt(c)
               /\ originLabel = NameAt(c)
    /\ \A fl \in InFlight \cup {ev.flow} :
           FlowKind(fl) = "typed" =>
               /\ "rev" \notin Calls(fl)
               /\ fl.pc = "awaitGeo" => "poi" \notin Calls(fl)
               /\ "poi" \in Calls(fl) => fl.calls = <<"geo", "poi">> /\ fl.origin \in Origins

C16_Witness == GeocoderMatched /\ ev.flow.origin = Coord(1, 0) /\ originLabel = NameAt(Coord(1, 0))

\* C17: immediately after a press of Clear, in whatever state it is pressed,
\* the result list, the error message, the origin label and the typed query
\* are empty and the searching indicator is off.
C17_ClearResetsToIdle ==
    [][PressClear =>
          /\ careResults' = <<>>
          /\ careError' = ""
          /\ originLabel' = ""
          /\ locationQuery' = <<>>
          /\ ~careLoading']_vars

\* C18: when the geocoder or the facility search fails (a rejected request
\* or an unreadable body), the message shown is the flow's fixed generic
\* text, whatever the failure was.
GenericText(fl) == IF FlowKind(fl) = "typed" THEN MsgSearchFailed ELSE MsgCareSearchFailed

C18_GenericFailureMessage ==
    (ev.op \in {"geoReturn", "poiReturn"} /\ ServiceFailed(ev.resp) /\ ev.ended)
        => careError = GenericText(ev.flow)

\* C19: the facility search returns exactly the min(8, n) nearest of the n
\* raw elements that have a representative coordinate (their own point, else
\* their centre), each with that coordinate, in ascending order of distance
\* from the origin; elements without a coordinate are dropped and no
\* returned entry is farther than a located element that was left out.
Representative(el) ==
    IF el.lat # NoNum /\ el.lon # NoNum THEN Coord(el.lat, el.lon) ELSE Coord(el.clat, el.clon)

Located(el) == Representative(el).lat # NoNum /\ Representative(el).lon # NoNum

Expected(el) ==
    LET c == Representative(el)
    IN  [lat |-> c.lat, lon |-> c.lon,
         distanceMiles |-> Abs(c.lat - rankOrigin.lat) + Abs(c.lon - rankOrigin.lon)]

LocatedIdx == {i \in DOMAIN rawIn : Located(rawIn[i])}
InCount(r) == Cardinality({i \in LocatedIdx : Expected(rawIn[i]) = r})
OutCount(r) == Cardinality({j \in DOMAIN rankOut : rankOut[j] = r})
Min(a, b) == IF a < b THEN a ELSE b

C19_EightNearest ==
    rankDone =>
        /\ Len(rankOut) = Min(MaxResults, Cardinality(LocatedIdx))
        /\ \A j \in DOMAIN rankOut : OutCount(rankOut[j]) <= InCount(rankOut[j])
        /\ \A j \in DOMAIN rankOut : \A k \in DOMAIN rankOut :
              j < k => rankOut[j].distanceMiles <= rankOut[k].distanceMiles
        /\ \A i \in LocatedIdx :
              OutCount(Expected(rawIn[i])) < InCount(Expected(rawIn[i]))
                  => \A j \in DOMAIN rankOut :
                         rankOut[j].distanceMiles <= Expected(rawIn[i]).distanceMiles

\* nine located elements, the first of them the farthest: it is the one left out
C19_Witness ==
    /\ rankDone
    /\ Len(rawIn) = MaxResults + 1
    /\ rawIn[1] = NodeFar
    /\ \A i \in 2..Len(rawIn) : rawIn[i] = WayNear
    /\ rankOrigin = Coord(0, 0)
    /\ Len(rankOut) = MaxResults
    /\ \A j \in DOMAIN rankOut : rankOut[j].distanceMiles = 1

\* C20 (as stated): careLoading is true exactly when at least one flow is in
\* flight, the device-location flow's waits for permission and position and
\* overlapping flows included.
C20_LoadingIffInFlight == careLoading <=> ~Quiet

\* C20 (amended): careLoading is true only while some flow awaits the
\* geocoder, the reverse geocoder or the facility search, and it is true
\* whenever the only flow since the session was quiet awaits one of them; it
\* is false while a lone device-location flow awaits permission or position.
Searching(fl) == fl.pc \in {"awaitGeo", "awaitRev", "awaitPoi"}

C20_LoadingWhileSearching ==
    /\ careLoading => \E fl \in InFlight : Searching(fl)
    /\ (RanAlone /\ \E fl \in InFlight : Searching(fl)) => careLoading
    /\ (RanAlone /\ \E fl \in InFlight : ~Searching(fl)) => ~careLoading

\* a lone device-location flow has its position and awaits the reverse geocoder
C20_Witness ==
    /\ careLoading
    /\ RanAlone
    /\ \E fl \in InFlight : fl.pc = "awaitRev"

\* C21: whenever a result list and an origin label are shown together, the
\* label is the one resolved in the flow that computed the list: a list that
\* has just arrived is shown under its own flow's label, and a flow that has
\* just set its label, having no list yet, finds no list on the screen.
ResultsArrived == ev.op = "poiReturn" /\ ev.ended /\ ev.out.results # <<>>
LabelSet == ev.op \in {"revReturn", "geoReturn"} /\ ~ev.ended

C21_LabelBelongsToResults ==
    /\ (ResultsArrived /\ careResults # <<>> /\ originLabel # "")
           => (careResults = ev.out.results /\ originLabel = ev.flow.label)
    /\ (LabelSet /\ originLabel # "") => careResults = <<>>

\* C22: after a press of Clear the result list, the error message and the
\* origin label stay empty until the user presses one of the two search
\* buttons: no other step, the completion of a flow that was in flight
\* included, fills them again.
C22_ClearedStaysCleared ==
    [][(ev.op = "clear" /\ ev'.op \notin {"useMyLocation", "search"})
          => (careResults' = <<>> /\ careError' = "" /\ originLabel' = "")]_vars

\* C23: after any sequence of stage selections the screen shows the selected
\* stage and its accent colour, while the probability table, the most likely
\* stage (Stage IV), its confidence tier and the guidance are what they were
\* at the start, and the guidance is that of Stage IV, not of the selected
\* stage.
FirstRender ==
    [topStage |-> "Stage IV", topPct |-> 73, tier |-> "Most likely",
     guidance |-> "Severe deep wound", urgency |-> "Very High"]

TablePct ==
    [s \in StageLabels |->
        CASE s = "Stage I" -> 1 [] s = "Stage II" -> 6 [] s = "Stage III" -> 18
          [] s = "Stage IV" -> 73 [] s = "Unstageable" -> 0 [] s = "DTPI" -> 2]

C23_SelectionChangesOnlyView ==
    LET shown == Render(selectedStage)
    IN  /\ shown.viewing = selectedStage
        /\ shown.viewing = (IF picks = <<>> THEN "Stage IV" ELSE picks[Len(picks)])
        /\ shown.accent = getStageAccent(shown.viewing)
        /\ shown.topStage = FirstRender.topStage
        /\ shown.topPct = FirstRender.topPct
        /\ shown.tier.label = FirstRender.tier
        /\ shown.guidance.title = FirstRender.guidance
        /\ shown.guidance.urgency = FirstRender.urgency
        /\ \A s \in StageLabels : shown.table[s].pct = TablePct[s]

\* the user has gone from one stage to another and is not viewing Stage IV
C23_Witness ==
    /\ Len(picks) >= 2
    /\ picks[1] = "Stage I"
    /\ selectedStage = "DTPI"

\* C24: on the photo page the stored photo changes only in a step where a
\* camera capture or gallery pick, made after its permission was granted,
\* returns without having been cancelled, and it becomes the photo returned;
\* a refused permission and a cancelled picker leave it as it was; the
\* Submitted alert is shown only in states where a photo is stored.
PhotoDelivered ==
    /\ photoEv'.op = "pickerReturn"
    /\ photoEv'.flow.pc = "awaitPicker"
    /\ photoEv'.resp.kind = "result"
    /\ ~photoEv'.resp.canceled
    /\ photoUri' = photoEv'.resp.uri
    /\ photoUri' \in {CameraUri, GalleryUri}

Refused ==
    /\ photoEv' # photoEv
    /\ \/ photoEv'.op = "permReturn" /\ ~photoEv'.resp.granted
       \/ photoEv'.op = "pickerReturn" /\ photoEv'.resp.canceled

C24_PhotoOnlyFromPick ==
    /\ [][(photoUri' # photoUri => PhotoDelivered) /\ (Refused => photoUri' = photoUri)]_vars
    /\ [](alert = MsgSubmitted => photoUri # NoPhoto)

\* a photo was picked and submitted, and a later gallery pick was cancelled
C24_Witness ==
    /\ alert = MsgSubmitted
    /\ photoUri = CameraUri
    /\ photoEv.op = "pickerReturn"
    /\ photoEv.flow.kind = "gallery"
    /\ photoEv.resp = Cancelled
====
